---- MODULE Spec2Model ----
(***************************************************************************)
(* Model of compare_dat_files.py: the hash cache keyed by path and         *)
(* modification time, compare_files run by the thread pool of              *)
(* compare_directories, the collection of the results in completion order  *)
(* and the write of the cache file.  The file system (contents and         *)
(* modification times) changes under the program through Modify/Delete.    *)
(* Model of compare_yml_files.py: the confirmed clearing of the output     *)
(* directory, compare_file_pair run by the process pool of                 *)
(* diff_directories and the .diff files it writes (specification SpecB).   *)
(***************************************************************************)
EXTENDS Integers, Sequences, FiniteSets, TLC

\* ---------------------------------------------------------------- bounds
MaxPath == 2       \* relative paths of .DAT files are 1..MaxPath, ordered as the path strings are
MaxTime == 2       \* modification times are 0..MaxTime
MaxContent == 1    \* file contents are 0..MaxContent
MaxRuns == 2       \* calls of compare_directories in one behaviour
MaxMods == 1       \* changes made to the trees by other programs in one behaviour
MaxEdits == 2      \* the same, where no content change keeps or lowers a modification time
MaxFiles == 2      \* the files os.walk finds under dir1 are 1..MaxFiles, in the order of the walk
MaxBytes == 2      \* the byte contents of the files of dir1 and dir2 are 0..MaxBytes
MaxCpu == 2        \* os.cpu_count() is 1..MaxCpu

Paths == 1..MaxPath
\* a file of both trees whose name does not end in .DAT (notes.txt, x.dat)
OtherPaths == {0}
AllPaths == Paths \cup OtherPaths
Times == 0..MaxTime
Contents == 0..MaxContent

\* root_a, root_b as passed to compare_directories
root_a == "a"
root_b == "b"
Roots == {root_a, root_b}

\* os.path.join(root, relative_path): the key of the hash cache
join(root, relative_path) == <<root, relative_path>>
FileKeys == {join(r, p) : r \in Roots, p \in AllPaths}

\* The value of hash_a/hash_b when no usable cached hash was found (None;
\* `not hash_a` is true of it).  Hex digests are never empty, hence truthy.
None == 0

VARIABLES
    files,         \* the two trees: FileKeys -> [exists, content, mtime]
    cache_file,    \* hash_cache.json on disk: [kind, text]
    pc,            \* position of compare_directories
    error,         \* the exception compare_directories ended with, or "none"
    hash_cache,    \* the dict shared by the workers
    common_files,  \* dat_files_a & dat_files_b
    dat_files_a,   \* result of the first walk
    workers,       \* one compare_files call per common path
    differences,   \* the list compare_directories returns
    done,          \* futures whose result() was taken by the as_completed loop
    pbar,          \* tqdm counter
    hash_calls,    \* calls of compute_file_hash in this run
    writes,        \* completed json.dump of the cache file in this run
    runs,          \* calls of compare_directories so far
    mods,          \* changes made to the trees so far
    touched,       \* a tree changed since this run started
    prev,          \* the preceding run: [valid, report]
    rewound        \* files whose modification time was set back (or that were re-created)

\* ------------------------------------------- state of compare_yml_files
YmlFiles == 1..MaxFiles
Bytes == 0..MaxBytes
\* dir2 has no file at the path derived from a file of dir1
Missing == -1
\* the content of a file that was in output_dir before the run
Prior == <<-1, -1>>
\* the names in output_dir: p for <relative path of p>.diff, 0 for a file
\* that is no .diff of this run
Names == YmlFiles \cup {0}
\* the state of a pair before executor.map has submitted it
NotSubmitted == "none"
\* the pool before ProcessPoolExecutor(...) was called
NoPool == -1

VARIABLES
    dir1,            \* YmlFiles -> Bytes: the files under dir1
    dir2,            \* YmlFiles -> Bytes or Missing: the file at f.replace(dir1, dir2)
    output_dir,      \* [exists, entries]: entries maps a name to a content
    prior,           \* output_dir as it was when diff_directories was called
    cpu_count,       \* os.cpu_count()
    yml_pc,          \* position of diff_directories
    yml_error,       \* the exception diff_directories ended with, or "none"
    all_files_dir1,  \* the list built from os.walk(dir1)
    pool_workers,    \* max_workers as passed to ProcessPoolExecutor, or NoPool
    units,           \* the future of each pair
    next_result,     \* index of the result executor.map yields next
    yml_pbar,        \* tqdm counter
    prompted,        \* input() was called
    user_input,      \* the line the user typed, as a sequence of characters
    cleared,         \* shutil.rmtree(output_dir) was called
    written          \* the pairs whose .diff was written by this run

yml_vars == <<dir1, dir2, output_dir, prior, cpu_count, yml_pc, yml_error,
              all_files_dir1, pool_workers, units, next_result, yml_pbar,
              prompted, user_input, cleared, written>>

\* compare_yml_files is not running
YmlOff ==
    /\ dir1 = [p \in YmlFiles |-> 0]
    /\ dir2 = [p \in YmlFiles |-> 0]
    /\ output_dir = [exists |-> FALSE, entries |-> <<>>]
    /\ prior = output_dir
    /\ cpu_count = 1
    /\ yml_pc = "off"
    /\ yml_error = "none"
    /\ all_files_dir1 = <<>>
    /\ pool_workers = NoPool
    /\ units = [p \in YmlFiles |-> NotSubmitted]
    /\ next_result = 1
    /\ yml_pbar = 0
    /\ prompted = FALSE
    /\ user_input = <<>>
    /\ cleared = FALSE
    /\ written = {}

vars == <<files, cache_file, pc, error, hash_cache, common_files, dat_files_a,
          workers, differences, done, pbar, hash_calls, writes, runs, mods,
          touched, prev, rewound, yml_vars>>

\* ------------------------------------------------------- pure functions

\* compute_file_hash: SHA-256 of the content, collision free on Contents,
\* and never the empty string.
compute_file_hash(content) == content + 1

\* file.endswith('.DAT')  (line 21)
endswith_DAT(relative_path) == relative_path \in Paths

\* find_dat_files: the relative paths of the .DAT files under a root
find_all_files(fs, root) == {p \in AllPaths : fs[join(root, p)].exists}
find_dat_files(fs, root) ==
    {p \in AllPaths : fs[join(root, p)].exists /\ endswith_DAT(p)}

\* The comparison of line 65
same_mod_time_inverted(mod_time_a, mod_time_b) == mod_time_a # mod_time_b
same_mod_time_or_newer(mod_time_a, mod_time_b) == mod_time_a >= mod_time_b
same_mod_time(mod_time_a, mod_time_b) == mod_time_a = mod_time_b

\* The freshness comparison of lines 70-71
not_modified_strict(record_mod_time, mod_time) == record_mod_time > mod_time
not_modified(record_mod_time, mod_time) == record_mod_time >= mod_time

\* hash_cache.get(f, {}).get('hash') if hash_cache.get(f, {}).get('mod_time', 0) >= mod_time else None
cached_hash(cache, f, mod_time) ==
    LET record_mod_time == IF f \in DOMAIN cache THEN cache[f].mod_time ELSE 0
        record_hash == IF f \in DOMAIN cache THEN cache[f].hash ELSE None
    IN  IF not_modified(record_mod_time, mod_time) THEN record_hash ELSE None

\* hash_cache[f] = {'hash': h, 'mod_time': mod_time}
put_if_absent(cache, f, h, mod_time) ==
    [k \in DOMAIN cache \cup {f} |->
        IF k \in DOMAIN cache THEN cache[k] ELSE [hash |-> h, mod_time |-> mod_time]]
put_stamp_latest(cache, f, h, mod_time) ==
    [k \in DOMAIN cache \cup {f} |->
        IF k = f THEN [hash |-> h, mod_time |-> MaxTime] ELSE cache[k]]
put_only(cache, f, h, mod_time) ==
    [k \in {f} |-> [hash |-> h, mod_time |-> mod_time]]
put(cache, f, h, mod_time) ==
    [k \in DOMAIN cache \cup {f} |->
        IF k = f THEN [hash |-> h, mod_time |-> mod_time] ELSE cache[k]]

EmptyCache == [k \in {} |-> [hash |-> None, mod_time |-> 0]]

\* json.dump(hash_cache, f): the entries of the mapping as text
json_dump_rounded(cache) == {<<k, cache[k].hash, cache[k].mod_time - 1>> : k \in DOMAIN cache}
json_dump(cache) == {<<k, cache[k].hash, cache[k].mod_time>> : k \in DOMAIN cache}

\* json.load(f) of a well-formed file
json_load(text) ==
    [k \in {t[1] : t \in text} |->
        LET t == CHOOSE t \in text : t[1] = k
        IN  [hash |-> t[2], mod_time |-> t[3]]]

\* compare_files(relative_path, first, second, hash_cache, pbar) run alone on
\* an unchanging tree, for any order of the two roots: [differ, cache]
compare_files_roots(fs, cache, first, second, relative_path) ==
    LET file_a == join(first, relative_path)
        file_b == join(second, relative_path)
        mod_time_a == fs[file_a].mtime
        mod_time_b == fs[file_b].mtime
        ca == cached_hash(cache, file_a, mod_time_a)
        cb == cached_hash(cache, file_b, mod_time_b)
        hash_a == IF ca = None THEN compute_file_hash(fs[file_a].content) ELSE ca
        cache1 == IF ca = None THEN put(cache, file_a, hash_a, mod_time_a) ELSE cache
        hash_b == IF cb = None THEN compute_file_hash(fs[file_b].content) ELSE cb
        cache2 == IF cb = None THEN put(cache1, file_b, hash_b, mod_time_b) ELSE cache1
    IN  IF same_mod_time(mod_time_a, mod_time_b)
        THEN [differ |-> FALSE, cache |-> cache]
        ELSE [differ |-> hash_a # hash_b, cache |-> cache2]

\* compare_files run alone on an unchanging tree: [differ, cache]
compare_files_seq(fs, cache, relative_path) ==
    compare_files_roots(fs, cache, root_a, root_b, relative_path)

\* compare_directories(first, second) on an unchanging tree, from a given
\* cache: the set of the paths it reports
RECURSIVE run_between(_, _, _, _, _)
run_between(fs, cache, first, second, todo) ==
    IF todo = {} THEN {}
    ELSE LET p == CHOOSE q \in todo : TRUE
             r == compare_files_roots(fs, cache, first, second, p)
         IN  (IF r.differ THEN {p} ELSE {})
                \cup run_between(fs, r.cache, first, second, todo \ {p})

\* compare_directories on an unchanging tree, from a given cache: the set of
\* the paths it reports
run_from(fs, cache, todo) == run_between(fs, cache, root_a, root_b, todo)

\* the report of a run that starts with an empty or missing cache
cold_report(fs) ==
    run_from(fs, EmptyCache, find_dat_files(fs, root_a) \cap find_dat_files(fs, root_b))

\* if future.result(): differences.append(relative_path)  (lines 113-114)
append_always(diffs, result, relative_path) == Append(diffs, relative_path)
append_result(diffs, result, relative_path) ==
    IF result THEN Append(diffs, relative_path) ELSE diffs

Range(s) == {s[i] : i \in 1..Len(s)}
IsSorted(s) == \A i \in 1..Len(s), j \in 1..Len(s) : i < j => s[i] <= s[j]

\* ---------------------------------------------------------------- state

NoWorker == [pc |-> "none", mod_time_a |-> 0, mod_time_b |-> 0,
             hash_a |-> None, hash_b |-> None, result |-> FALSE]

Finished(w) == w.pc \in {"returned", "raised"}

InRun == pc \in {"walk_a", "walk_b", "collect", "shutdown", "dump"}

DatInit ==
    /\ files \in [FileKeys -> [exists : {TRUE}, content : Contents, mtime : Times]]
    /\ \A p \in AllPaths : /\ files[join(root_a, p)].mtime = 0
                           /\ files[join(root_b, p)].mtime = MaxTime
    /\ \A p \in OtherPaths : /\ files[join(root_a, p)].content = 0
                             /\ files[join(root_b, p)].content = MaxContent
    /\ cache_file = [kind |-> "missing", text |-> {}]
    /\ pc = "idle"
    /\ error = "none"
    /\ hash_cache = EmptyCache
    /\ common_files = {}
    /\ dat_files_a = {}
    /\ workers = [p \in AllPaths |-> NoWorker]
    /\ differences = <<>>
    /\ done = {}
    /\ pbar = 0
    /\ hash_calls = 0
    /\ writes = 0
    /\ runs = 0
    /\ mods = 0
    /\ touched = FALSE
    /\ prev = [valid |-> FALSE, report |-> {}]
    /\ rewound = {}

Init == DatInit /\ YmlOff


\* ------------------------------------------------- compare_directories

\* The call, and the load of the cache file (lines 96-101).  A file that is
\* not valid JSON makes json.load raise, which ends the call.
LoadCache ==
    /\ pc \in {"idle", "returned", "raised", "killed"}
    /\ runs < MaxRuns
    /\ runs' = runs + 1
    /\ prev' = IF pc = "returned" /\ ~touched
               THEN [valid |-> TRUE, report |-> Range(differences)]
               ELSE [valid |-> FALSE, report |-> {}]
    /\ touched' = FALSE
    /\ common_files' = {}
    /\ dat_files_a' = {}
    /\ workers' = [p \in AllPaths |-> NoWorker]
    /\ differences' = <<>>
    /\ done' = {}
    /\ pbar' = 0
    /\ hash_calls' = 0
    /\ writes' = 0
    /\ IF cache_file.kind = "missing"
       THEN hash_cache' = EmptyCache /\ pc' = "walk_a" /\ error' = "none"
       ELSE IF cache_file.kind = "json"
       THEN hash_cache' = json_load(cache_file.text) /\ pc' = "walk_a" /\ error' = "none"
       ELSE hash_cache' = EmptyCache /\ pc' = "raised" /\ error' = "JSONDecodeError"
    /\ UNCHANGED <<rewound, yml_vars>>
    /\ UNCHANGED <<files, cache_file, mods>>

\* dat_files_a = set(find_dat_files(root_a))  (line 103)
WalkA ==
    /\ pc = "walk_a"
    /\ dat_files_a' = find_dat_files(files, root_a)
    /\ pc' = "walk_b"
    /\ UNCHANGED <<rewound, yml_vars>>
    /\ UNCHANGED <<files, cache_file, error, hash_cache, common_files, workers,
                   differences, done, pbar, hash_calls, writes, runs, mods,
                   touched, prev>>

\* dat_files_b, common_files, and the submission of one compare_files call
\* per common path (lines 104-110)
WalkB ==
    /\ pc = "walk_b"
    /\ common_files' = dat_files_a \cap find_dat_files(files, root_b)
    /\ workers' = [p \in AllPaths |->
                     IF p \in common_files' THEN [NoWorker EXCEPT !.pc = "queued"]
                     ELSE NoWorker]
    /\ pc' = "collect"
    /\ UNCHANGED <<rewound, yml_vars>>
    /\ UNCHANGED <<files, cache_file, error, hash_cache, dat_files_a,
                   differences, done, pbar, hash_calls, writes, runs, mods,
                   touched, prev>>

\* ------------------------------------------------------- compare_files

PoolRunning == pc \in {"collect", "shutdown"}

\* what is left of compare_files once both hashes are looked up: the next
\* hash to compute, or pbar.update(1) and the return
AfterLookup(w) ==
    IF w.hash_a = None THEN [w EXCEPT !.pc = "hash_a"]
    ELSE IF w.hash_b = None THEN [w EXCEPT !.pc = "hash_b"]
    ELSE [w EXCEPT !.pc = "returned", !.result = (w.hash_a # w.hash_b)]

\* mod_time_a = os.path.getmtime(file_a)  (line 61)
GetMtimeA(p) ==
    /\ PoolRunning
    /\ workers[p].pc = "queued"
    /\ LET file_a == join(root_a, p)
       IN  workers' = IF files[file_a].exists
                      THEN [workers EXCEPT ![p].pc = "mtime_b",
                                           ![p].mod_time_a = files[file_a].mtime]
                      ELSE [workers EXCEPT ![p].pc = "raised"]
    /\ UNCHANGED <<rewound, yml_vars>>
    /\ UNCHANGED <<files, cache_file, pc, error, hash_cache, common_files,
                   dat_files_a, differences, done, pbar, hash_calls, writes,
                   runs, mods, touched, prev>>

\* mod_time_b = os.path.getmtime(file_b), the short-circuit on equal times and
\* the two cache lookups (lines 62-71)
GetMtimeB(p) ==
    /\ PoolRunning
    /\ workers[p].pc = "mtime_b"
    /\ LET file_a == join(root_a, p)
           file_b == join(root_b, p)
           mod_time_a == workers[p].mod_time_a
           mod_time_b == files[file_b].mtime
           looked == [workers[p] EXCEPT
                        !.mod_time_b = mod_time_b,
                        !.hash_a = cached_hash(hash_cache, file_a, mod_time_a),
                        !.hash_b = cached_hash(hash_cache, file_b, mod_time_b)]
       IN  IF ~files[file_b].exists
           THEN /\ workers' = [workers EXCEPT ![p].pc = "raised"]
                /\ pbar' = pbar
           ELSE IF same_mod_time(mod_time_a, mod_time_b)
           THEN /\ workers' = [workers EXCEPT ![p].pc = "returned",
                                              ![p].mod_time_b = mod_time_b,
                                              ![p].result = FALSE]
                /\ pbar' = pbar + 1
           ELSE /\ workers' = [workers EXCEPT ![p] = AfterLookup(looked)]
                /\ pbar' = IF AfterLookup(looked).pc = "returned" THEN pbar + 1 ELSE pbar
    /\ UNCHANGED <<rewound, yml_vars>>
    /\ UNCHANGED <<files, cache_file, pc, error, hash_cache, common_files,
                   dat_files_a, differences, done, hash_calls, writes, runs,
                   mods, touched, prev>>

\* if not hash_a: compute_file_hash(file_a) and the store (lines 73-75)
HashA(p) ==
    /\ PoolRunning
    /\ workers[p].pc = "hash_a"
    /\ LET file_a == join(root_a, p)
           h == compute_file_hash(files[file_a].content)
           hashed == [workers[p] EXCEPT !.hash_a = h]
       IN  IF ~files[file_a].exists
           THEN /\ workers' = [workers EXCEPT ![p].pc = "raised"]
                /\ UNCHANGED <<hash_cache, hash_calls, pbar>>
           ELSE /\ workers' = [workers EXCEPT ![p] = AfterLookup(hashed)]
                /\ hash_cache' = put(hash_cache, file_a, h, workers[p].mod_time_a)
                /\ hash_calls' = hash_calls + 1
                /\ pbar' = IF AfterLookup(hashed).pc = "returned" THEN pbar + 1 ELSE pbar
    /\ UNCHANGED <<rewound, yml_vars>>
    /\ UNCHANGED <<files, cache_file, pc, error, common_files, dat_files_a,
                   differences, done, writes, runs, mods, touched, prev>>

\* if not hash_b: compute_file_hash(file_b) and the store, then
\* pbar.update(1) and return hash_a != hash_b  (lines 76-81)
HashB(p) ==
    /\ PoolRunning
    /\ workers[p].pc = "hash_b"
    /\ LET file_b == join(root_b, p)
           h == compute_file_hash(files[file_b].content)
           hashed == [workers[p] EXCEPT !.hash_b = h]
       IN  IF ~files[file_b].exists
           THEN /\ workers' = [workers EXCEPT ![p].pc = "raised"]
                /\ UNCHANGED <<hash_cache, hash_calls, pbar>>
           ELSE /\ workers' = [workers EXCEPT ![p] = AfterLookup(hashed)]
                /\ hash_cache' = put(hash_cache, file_b, h, workers[p].mod_time_b)
                /\ hash_calls' = hash_calls + 1
                /\ pbar' = pbar + 1
    /\ UNCHANGED <<rewound, yml_vars>>
    /\ UNCHANGED <<files, cache_file, pc, error, common_files, dat_files_a,
                   differences, done, writes, runs, mods, touched, prev>>

\* -------------------------------------- compare_directories, continued

\* One turn of the as_completed loop: future.result() of a finished call
\* either re-raises the call's exception or yields its result, and a True
\* result is appended (lines 111-114)
Collect(p) ==
    /\ pc = "collect"
    /\ p \in common_files \ done
    /\ Finished(workers[p])
    /\ IF workers[p].pc = "raised"
       THEN /\ pc' = "shutdown"
            /\ error' = "FileNotFoundError"
            /\ UNCHANGED <<differences, done>>
       ELSE /\ done' = done \cup {p}
            /\ differences' = append_result(differences, workers[p].result, p)
            /\ UNCHANGED <<pc, error>>
    /\ UNCHANGED <<rewound, yml_vars>>
    /\ UNCHANGED <<files, cache_file, hash_cache, common_files, dat_files_a,
                   workers, pbar, hash_calls, writes, runs, mods, touched, prev>>

\* The exception leaves the with blocks: the executor waits for the calls
\* still running, then compare_directories raises (line 108)
Shutdown ==
    /\ pc = "shutdown"
    /\ \A p \in common_files : Finished(workers[p])
    /\ pc' = "raised"
    /\ UNCHANGED <<rewound, yml_vars>>
    /\ UNCHANGED <<files, cache_file, error, hash_cache, common_files,
                   dat_files_a, workers, differences, done, pbar, hash_calls,
                   writes, runs, mods, touched, prev>>

\* open(cache_file, 'w') once every result is taken: the file is truncated
\* in place (line 117)
PersistOpen ==
    /\ pc = "collect"
    /\ done = common_files
    /\ cache_file' = [kind |-> "truncated", text |-> {}]
    /\ pc' = "dump"
    /\ UNCHANGED <<rewound, yml_vars>>
    /\ UNCHANGED <<files, error, hash_cache, common_files, dat_files_a, workers,
                   differences, done, pbar, hash_calls, writes, runs, mods,
                   touched, prev>>

\* json.dump(hash_cache, f) and return differences (lines 118-120)
PersistDump ==
    /\ pc = "dump"
    /\ cache_file' = [kind |-> "json", text |-> json_dump(hash_cache)]
    /\ writes' = writes + 1
    /\ pc' = "returned"
    /\ UNCHANGED <<rewound, yml_vars>>
    /\ UNCHANGED <<files, error, hash_cache, common_files, dat_files_a, workers,
                   differences, done, pbar, hash_calls, runs, mods, touched,
                   prev>>

\* ------------------------------------------------------- environment

\* The process is killed during a run: what it held in memory is gone, the
\* cache file stays as it is on disk
Kill ==
    /\ InRun
    /\ pc' = "killed"
    /\ error' = "none"
    /\ hash_cache' = EmptyCache
    /\ common_files' = {}
    /\ dat_files_a' = {}
    /\ workers' = [p \in AllPaths |-> NoWorker]
    /\ differences' = <<>>
    /\ done' = {}
    /\ pbar' = 0
    /\ hash_calls' = 0
    /\ writes' = 0
    /\ UNCHANGED <<rewound, yml_vars>>
    /\ UNCHANGED <<files, cache_file, runs, mods, touched, prev>>

\* Another program writes a file (or sets its times): any content, any
\* modification time
Write(f, content, mtime) ==
    /\ files' = [files EXCEPT ![f] = [exists |-> TRUE, content |-> content, mtime |-> mtime]]
    /\ files' # files
    /\ mods' = mods + 1
    /\ touched' = TRUE
    /\ rewound' = IF ~files[f].exists \/ mtime < files[f].mtime
                  THEN rewound \cup {f} ELSE rewound
    /\ UNCHANGED yml_vars
    /\ UNCHANGED <<cache_file, pc, error, hash_cache, common_files, dat_files_a,
                   workers, differences, done, pbar, hash_calls, writes, runs,
                   prev>>

Modify(f, content, mtime) ==
    /\ mods < MaxMods
    /\ Write(f, content, mtime)

\* The same under the discipline that a change of the content of a file
\* gives it a strictly newer modification time
ModifyNewer(f, content, mtime) ==
    /\ mods < MaxEdits
    /\ files[f].exists
    /\ content # files[f].content => mtime > files[f].mtime
    /\ Write(f, content, mtime)

\* Another program removes a file
Delete(f) ==
    /\ mods < MaxMods
    /\ files[f].exists
    /\ files' = [files EXCEPT ![f] = [exists |-> FALSE, content |-> 0, mtime |-> 0]]
    /\ mods' = mods + 1
    /\ touched' = TRUE
    /\ UNCHANGED <<rewound, yml_vars>>
    /\ UNCHANGED <<cache_file, pc, error, hash_cache, common_files, dat_files_a,
                   workers, differences, done, pbar, hash_calls, writes, runs,
                   prev>>

Next ==
    \/ LoadCache
    \/ WalkA
    \/ WalkB
    \/ \E p \in AllPaths : GetMtimeA(p)
    \/ \E p \in AllPaths : GetMtimeB(p)
    \/ \E p \in AllPaths : HashA(p)
    \/ \E p \in AllPaths : HashB(p)
    \/ \E p \in AllPaths : Collect(p)
    \/ Shutdown
    \/ PersistOpen
    \/ PersistDump
    \/ Kill
    \/ \E f \in FileKeys, c \in Contents, t \in Times : Modify(f, c, t)
    \/ \E f \in FileKeys : Delete(f)

Spec == Init /\ [][Next]_vars

\* The runs from an empty cache over trees whose .DAT files start alike and
\* are changed only by ModifyNewer and Delete
InitMtime ==
    /\ Init
    /\ \A p \in Paths : /\ files[join(root_a, p)].content = 0
                        /\ files[join(root_b, p)].content = 0

NextMtime ==
    \/ LoadCache
    \/ WalkA
    \/ WalkB
    \/ \E p \in AllPaths : GetMtimeA(p)
    \/ \E p \in AllPaths : GetMtimeB(p)
    \/ \E p \in AllPaths : HashA(p)
    \/ \E p \in AllPaths : HashB(p)
    \/ \E p \in AllPaths : Collect(p)
    \/ Shutdown
    \/ PersistOpen
    \/ PersistDump
    \/ Kill
    \/ \E f \in FileKeys, c \in Contents, t \in Times : ModifyNewer(f, c, t)
    \/ \E f \in FileKeys : Delete(f)

SpecMtime == InitMtime /\ [][NextMtime]_vars

\* ------------------------------------------------ compare_yml_files.py

dat_vars == <<files, cache_file, pc, error, hash_cache, common_files, dat_files_a,
              workers, differences, done, pbar, hash_calls, writes, runs, mods,
              touched, prev, rewound>>

\* file_hash: MD5 of the bytes of the file, collision free on Bytes
file_hash(content) == content + 1

\* f1.readlines() of a file opened with encoding='utf-8', errors='replace' and
\* universal newlines: the bytes 0 and 1 (as "x\n" and "x\r\n", or two
\* different invalid bytes) decode to the same lines, the byte 2 to others
decode_lines(content) == content \div 2

\* list(difflib.unified_diff(lines1, lines2, file1, file2)): empty exactly
\* when the two lists of lines are equal
unified_diff(lines1, lines2) ==
    IF lines1 = lines2 THEN <<>> ELSE <<lines1, lines2>>

detailed_comparison(content1, content2) ==
    unified_diff(decode_lines(content1), decode_lines(content2))

\* the two tests of compare_file_pair (lines 62 and 64)
writes_diff_on_hash(hash1, hash2, diff) == hash1 # hash2
writes_diff(hash1, hash2, diff) == hash1 # hash2 /\ diff # <<>>

\* str.strip() and str.lower() on a line given as a sequence of characters
Whitespace == {" "}
RECURSIVE lstrip(_)
lstrip(line) ==
    IF line # <<>> /\ Head(line) \in Whitespace THEN lstrip(Tail(line)) ELSE line
RECURSIVE rstrip(_)
rstrip(line) ==
    IF line # <<>> /\ line[Len(line)] \in Whitespace
    THEN rstrip(SubSeq(line, 1, Len(line) - 1)) ELSE line
strip(line) == rstrip(lstrip(line))
lower_char(c) == IF c = "Y" THEN "y" ELSE IF c = "N" THEN "n" ELSE c
lower(line) ==
    IF line = <<>> THEN <<>> ELSE [i \in 1..Len(line) |-> lower_char(line[i])]

\* user_input == 'y' of line 84, user_input being input(...).strip().lower()
confirmed_unless_no(line) == lower(strip(line)) # <<"n">>
confirmed(line) == lower(strip(line)) = <<"y">>

\* the lines a user types at the prompt
Answers == {<<"y">>, <<"Y">>, <<" ", "Y", " ">>, <<"y", "e", "s">>, <<"n">>, <<>>}

\* max_workers=os.cpu_count() - 1 (line 108)
max_workers(cpus) == cpus - 1

\* the files os.walk(dir1) lists, from path p on
RECURSIVE os_walk(_, _)
os_walk(d, p) ==
    IF p > MaxFiles THEN <<>>
    ELSE (IF d[p] # Missing THEN <<p>> ELSE <<>>) \o os_walk(d, p + 1)

\* open(diff_output_path, 'w') and the writes of the lines of the diff
put_entry(entries, name, content) ==
    [k \in DOMAIN entries \cup {name} |-> IF k = name THEN content ELSE entries[k]]

YmlInit ==
    /\ dir1 \in [YmlFiles -> Bytes \cup {Missing}]
    /\ dir2 \in [YmlFiles -> Bytes \cup {Missing}]
    /\ \A p \in YmlFiles : dir1[p] = Missing => dir2[p] = Missing
    /\ output_dir \in {[exists |-> FALSE, entries |-> <<>>],
                       [exists |-> TRUE, entries |-> <<>>],
                       [exists |-> TRUE, entries |-> (0 :> Prior @@ 1 :> Prior)]}
    /\ prior = output_dir
    /\ cpu_count \in 1..MaxCpu
    /\ yml_pc = "start"
    /\ yml_error = "none"
    /\ all_files_dir1 = <<>>
    /\ pool_workers = NoPool
    /\ units = [p \in YmlFiles |-> NotSubmitted]
    /\ next_result = 1
    /\ yml_pbar = 0
    /\ prompted = FALSE
    /\ user_input = <<>>
    /\ cleared = FALSE
    /\ written = {}

\* diff_directories is called while compare_dat_files is not running
InitB ==
    /\ DatInit
    /\ \A p \in Paths : /\ files[join(root_a, p)].content = 0
                        /\ files[join(root_b, p)].content = 0
    /\ YmlInit

\* clear_directory(output_dir) (lines 74-88, called at line 100).  input()
\* returns the line typed, or raises EOFError when standard input is closed.
clear_directory ==
    /\ yml_pc = "start"
    /\ IF output_dir.exists
       THEN \/ \E line \in Answers :
                 /\ prompted' = TRUE
                 /\ user_input' = line
                 /\ IF confirmed(line)
                    THEN /\ output_dir' = [exists |-> FALSE, entries |-> <<>>]
                         /\ cleared' = TRUE
                    ELSE UNCHANGED <<output_dir, cleared>>
                 /\ yml_pc' = "walk"
                 /\ UNCHANGED yml_error
            \/ /\ prompted' = TRUE
               /\ yml_pc' = "raised"
               /\ yml_error' = "EOFError"
               /\ UNCHANGED <<user_input, output_dir, cleared>>
       ELSE /\ yml_pc' = "walk"
            /\ UNCHANGED <<prompted, user_input, output_dir, cleared, yml_error>>
    /\ UNCHANGED <<dir1, dir2, prior, cpu_count, all_files_dir1, pool_workers,
                   units, next_result, yml_pbar, written>>
    /\ UNCHANGED dat_vars

\* all_files_dir1, all_files_dir2 and total_files (lines 102-105)
Walk ==
    /\ yml_pc = "walk"
    /\ all_files_dir1' = os_walk(dir1, 1)
    /\ yml_pc' = "pool"
    /\ UNCHANGED <<dir1, dir2, output_dir, prior, cpu_count, yml_error,
                   pool_workers, units, next_result, yml_pbar, prompted,
                   user_input, cleared, written>>
    /\ UNCHANGED dat_vars

\* ProcessPoolExecutor(max_workers=os.cpu_count() - 1), which raises
\* ValueError unless max_workers > 0, and executor.map, which submits every
\* pair before it yields the first result (lines 108-109)
StartPool ==
    /\ yml_pc = "pool"
    /\ pool_workers' = max_workers(cpu_count)
    /\ IF pool_workers' <= 0
       THEN /\ yml_pc' = "raised"
            /\ yml_error' = "ValueError"
            /\ UNCHANGED units
       ELSE /\ yml_pc' = "map"
            /\ units' = [p \in YmlFiles |->
                            IF \E i \in 1..Len(all_files_dir1) : all_files_dir1[i] = p
                            THEN "pending" ELSE NotSubmitted]
            /\ UNCHANGED yml_error
    /\ UNCHANGED <<dir1, dir2, output_dir, prior, cpu_count, all_files_dir1,
                   next_result, yml_pbar, prompted, user_input, cleared, written>>
    /\ UNCHANGED dat_vars

\* The pool moves the oldest pending pair to its call queue; from then on
\* the future is running and cannot be cancelled
Enqueue(p) ==
    /\ yml_pc = "map"
    /\ units[p] = "pending"
    /\ \A q \in YmlFiles : q < p => units[q] # "pending"
    /\ units' = [units EXCEPT ![p] = "queued"]
    /\ UNCHANGED <<dir1, dir2, output_dir, prior, cpu_count, yml_pc, yml_error,
                   all_files_dir1, pool_workers, next_result, yml_pbar, prompted,
                   user_input, cleared, written>>
    /\ UNCHANGED dat_vars

\* compare_file_pair (lines 46-72) in a worker process; open(file2, "rb")
\* raises FileNotFoundError when dir2 has no file at the derived path
compare_file_pair(p) ==
    /\ yml_pc \in {"map", "shutdown"}
    /\ units[p] = "queued"
    /\ IF dir2[p] = Missing
       THEN /\ units' = [units EXCEPT ![p] = "raised"]
            /\ UNCHANGED <<output_dir, written>>
       ELSE LET hash1 == file_hash(dir1[p])
                hash2 == file_hash(dir2[p])
                diff == IF hash1 # hash2
                        THEN detailed_comparison(dir1[p], dir2[p]) ELSE <<>>
            IN  /\ units' = [units EXCEPT ![p] = "done"]
                /\ IF writes_diff(hash1, hash2, diff)
                   THEN /\ output_dir' = [exists |-> TRUE,
                                          entries |-> put_entry(output_dir.entries, p, diff)]
                        /\ written' = written \cup {p}
                   ELSE UNCHANGED <<output_dir, written>>
    /\ UNCHANGED <<dir1, dir2, prior, cpu_count, yml_pc, yml_error, all_files_dir1,
                   pool_workers, next_result, yml_pbar, prompted, user_input, cleared>>
    /\ UNCHANGED dat_vars

\* One turn of the loop over executor.map (lines 109-110): the results come
\* in the order of submission; the exception of a pair is raised from the
\* iterator, which cancels the futures that are still pending
NextResult ==
    /\ yml_pc = "map"
    /\ next_result <= Len(all_files_dir1)
    /\ LET p == all_files_dir1[next_result]
       IN  \/ /\ units[p] = "done"
              /\ next_result' = next_result + 1
              /\ yml_pbar' = yml_pbar + 1
              /\ UNCHANGED <<yml_pc, yml_error, units>>
           \/ /\ units[p] = "raised"
              /\ units' = [q \in YmlFiles |->
                              IF units[q] = "pending" THEN "cancelled" ELSE units[q]]
              /\ yml_error' = "FileNotFoundError"
              /\ yml_pc' = "shutdown"
              /\ UNCHANGED <<next_result, yml_pbar>>
    /\ UNCHANGED <<dir1, dir2, output_dir, prior, cpu_count, all_files_dir1,
                   pool_workers, prompted, user_input, cleared, written>>
    /\ UNCHANGED dat_vars

\* The end of the two with blocks: executor.shutdown(wait=True) waits for
\* the running futures, then diff_directories returns or the exception
\* leaves it
ExitPool ==
    /\ \A p \in YmlFiles : units[p] # "queued"
    /\ IF yml_pc = "map"
       THEN /\ next_result > Len(all_files_dir1)
            /\ yml_pc' = "done"
       ELSE /\ yml_pc = "shutdown"
            /\ yml_pc' = "raised"
    /\ UNCHANGED <<dir1, dir2, output_dir, prior, cpu_count, yml_error,
                   all_files_dir1, pool_workers, units, next_result, yml_pbar,
                   prompted, user_input, cleared, written>>
    /\ UNCHANGED dat_vars

NextB ==
    \/ clear_directory
    \/ Walk
    \/ StartPool
    \/ \E p \in YmlFiles : Enqueue(p)
    \/ \E p \in YmlFiles : compare_file_pair(p)
    \/ NextResult
    \/ ExitPool

SpecB == InitB /\ [][NextB]_vars


\* ------------------------------------------------------------- claims

\* C1: cache-removal invariance.  A run over trees that do not change while
\* it runs returns, whatever cache earlier runs left, the set of paths a run
\* from an empty or missing cache returns on the same trees.
C1_CacheRemovalInvariance ==
    (pc = "returned" /\ ~touched) => Range(differences) = cold_report(files)

\* C2: idempotence.  A run that follows a run which returned, with no file
\* changed since that run started and the cache file it wrote loaded as it
\* is, returns the same set of paths and calls compute_file_hash zero times.
C2_Idempotence ==
    (pc = "returned" /\ prev.valid /\ ~touched)
        => (Range(differences) = prev.report /\ hash_calls = 0)

\* the second of two runs has returned; the first one hashed files and
\* reported a difference
C2_Witness ==
    /\ pc = "returned"
    /\ prev.valid
    /\ ~touched
    /\ prev.report # {}
    /\ Cardinality(DOMAIN hash_cache) >= 2

\* C3: per-file error isolation.  When compare_files fails for a common
\* path, the run still returns, and every other common path is compared and
\* its result is in the returned report.
C3_ErrorIsolation ==
    (pc \in {"returned", "raised"} /\ \E p \in common_files : workers[p].pc = "raised")
        => /\ pc = "returned"
           /\ \A q \in common_files :
                workers[q].pc = "returned"
                    => (q \in done /\ (workers[q].result => q \in Range(differences)))

\* C4: cache load tolerance.  A missing or malformed cache file never makes
\* the run fail: no run ends with the error of the load.
C4_CacheLoadTolerance ==
    ~(pc = "raised" /\ error = "JSONDecodeError")

\* C5: persist ordering.  Every execution of compare_directories that runs
\* to its end writes the cache file exactly once, the write starts only
\* when every worker has finished, and no worker is running during it.
C5_PersistOrdering ==
    /\ pc \in {"returned", "raised"} => writes = 1
    /\ writes <= 1
    /\ pc = "dump" => \A p \in common_files : Finished(workers[p])

\* C6: deterministic report order.  The returned list is sorted by relative
\* path, whatever the order in which the workers completed.
C6_SortedReport ==
    pc = "returned" => IsSorted(differences)

\* C7: stale record handling.  When the record of a file is older than the
\* modification time compare_files read for it, the lookup ignores its hash,
\* and the hashing step computes the hash from the content and overwrites
\* the record with that hash and that modification time.
C7_StaleRecordHandling ==
    [][\A p \in Paths :
        LET file_a == join(root_a, p)
            file_b == join(root_b, p)
            w == workers[p]
            stale_a == file_a \in DOMAIN hash_cache
                        /\ hash_cache[file_a].mod_time < w.mod_time_a
        IN  /\ (w.pc = "mtime_b" /\ workers'[p].pc \in {"hash_a", "hash_b", "returned"}
                   /\ w.mod_time_a # workers'[p].mod_time_b)
               => /\ stale_a => workers'[p].pc = "hash_a"
                  /\ (file_b \in DOMAIN hash_cache
                        /\ hash_cache[file_b].mod_time < workers'[p].mod_time_b)
                     => workers'[p].hash_b = None
            /\ (w.pc = "hash_a" /\ workers'[p].pc \in {"hash_b", "returned"} /\ stale_a)
               => /\ workers'[p].hash_a = compute_file_hash(files[file_a].content)
                  /\ hash_cache'[file_a] = [hash |-> compute_file_hash(files[file_a].content),
                                            mod_time |-> w.mod_time_a]
                  /\ hash_calls' = hash_calls + 1
            /\ (w.pc = "hash_b" /\ workers'[p].pc = "returned"
                   /\ file_b \in DOMAIN hash_cache
                   /\ hash_cache[file_b].mod_time < w.mod_time_b)
               => /\ workers'[p].hash_b = compute_file_hash(files[file_b].content)
                  /\ hash_cache'[file_b] = [hash |-> compute_file_hash(files[file_b].content),
                                            mod_time |-> w.mod_time_b]
                  /\ hash_calls' = hash_calls + 1
      ]_vars

\* a worker has replaced the record the cache file holds for its file_a, which
\* was older than the file, by another hash under the newer time
C7_Witness ==
    \E p \in Paths :
        LET file_a == join(root_a, p)
        IN  /\ workers[p].pc \in {"hash_b", "returned"}
            /\ cache_file.kind = "json"
            /\ \E t \in cache_file.text :
                  /\ t[1] = file_a
                  /\ t[3] < workers[p].mod_time_a
                  /\ t[2] # workers[p].hash_a
            /\ file_a \in DOMAIN hash_cache
            /\ hash_cache[file_a] = [hash |-> workers[p].hash_a,
                                     mod_time |-> workers[p].mod_time_a]

\* C8: freshness lookup.  For each side, the lookup yields the cached hash
\* iff the file has a record whose mod_time is >= the modification time read
\* for the file; otherwise the hash compared is computed from the content in
\* this call; and the call returns whether the two hashes differ.
C8_FreshnessLookup ==
    [][\A p \in Paths :
        LET file_a == join(root_a, p)
            file_b == join(root_b, p)
            w == workers[p]
            fresh_a == file_a \in DOMAIN hash_cache
                        /\ hash_cache[file_a].mod_time >= w.mod_time_a
            fresh_b == file_b \in DOMAIN hash_cache
                        /\ hash_cache[file_b].mod_time >= workers'[p].mod_time_b
        IN  /\ (w.pc = "mtime_b" /\ workers'[p].pc \in {"hash_a", "hash_b", "returned"}
                   /\ w.mod_time_a # workers'[p].mod_time_b)
               => /\ fresh_a => workers'[p].hash_a = hash_cache[file_a].hash
                  /\ ~fresh_a => workers'[p].hash_a = None
                  /\ fresh_b => workers'[p].hash_b = hash_cache[file_b].hash
                  /\ ~fresh_b => workers'[p].hash_b = None
            /\ (w.pc = "hash_a" /\ workers'[p].pc \in {"hash_b", "returned"})
               => /\ w.hash_a = None
                  /\ workers'[p].hash_a = compute_file_hash(files[file_a].content)
                  /\ workers'[p].hash_b = w.hash_b
            /\ (w.pc = "hash_b" /\ workers'[p].pc = "returned")
               => /\ w.hash_b = None
                  /\ workers'[p].hash_b = compute_file_hash(files[file_b].content)
                  /\ workers'[p].hash_a = w.hash_a
            /\ (w.pc # "returned" /\ workers'[p].pc = "returned"
                   /\ w.mod_time_a # workers'[p].mod_time_b)
               => /\ workers'[p].hash_a # None
                  /\ workers'[p].hash_b # None
                  /\ workers'[p].result = (workers'[p].hash_a # workers'[p].hash_b)
      ]_vars

\* a worker took the hash of file_b from a record that is not older than the
\* file, and has to compute the hash of file_a, whose record is older
C8_Witness ==
    \E p \in Paths :
        LET file_a == join(root_a, p)
            file_b == join(root_b, p)
        IN  /\ workers[p].pc = "hash_a"
            /\ file_a \in DOMAIN hash_cache
            /\ hash_cache[file_a].mod_time < workers[p].mod_time_a
            /\ file_b \in DOMAIN hash_cache
            /\ hash_cache[file_b].mod_time >= workers[p].mod_time_b
            /\ workers[p].hash_b = hash_cache[file_b].hash
            /\ workers[p].hash_b # None

\* C9: modification-time short-circuit.  When the two modification times
\* read are equal, compare_files returns False whatever the contents, calls
\* no hash and leaves the hash cache as it is.
C9_MtimeShortCircuit ==
    [][\A p \in Paths :
        LET file_b == join(root_b, p)
        IN  (/\ workers[p].pc = "mtime_b"
             /\ workers'[p].pc \notin {"mtime_b", "none"}
             /\ files[file_b].exists
             /\ workers[p].mod_time_a = files[file_b].mtime)
            => /\ workers'[p].pc = "returned"
               /\ workers'[p].result = FALSE
               /\ hash_cache' = hash_cache
               /\ hash_calls' = hash_calls
      ]_vars

\* a call returned False for two files of equal modification times and
\* different contents, with no hash computed in the run
C9_Witness ==
    \E p \in Paths :
        LET file_a == join(root_a, p)
            file_b == join(root_b, p)
        IN  /\ workers[p].pc = "returned"
            /\ workers[p].mod_time_a = workers[p].mod_time_b
            /\ ~workers[p].result
            /\ files[file_a].exists /\ files[file_b].exists
            /\ files[file_a].mtime = files[file_b].mtime
            /\ files[file_a].content # files[file_b].content
            /\ hash_calls = 0
            /\ p \notin Range(differences)
            /\ p \in done

\* C10: identical content is never reported as differing.  After a run over
\* trees that do not change while it runs, no common path whose two files
\* have the same bytes and different modification times is in the report,
\* whatever cache earlier runs left.
C10_IdenticalNeverReported ==
    (pc = "returned" /\ ~touched)
        => \A p \in common_files :
              LET file_a == join(root_a, p)
                  file_b == join(root_b, p)
              IN  (files[file_a].content = files[file_b].content
                     /\ files[file_a].mtime # files[file_b].mtime)
                  => p \notin Range(differences)


\* the cache compare_directories loaded from the cache file, while the file
\* is as it was at the load
loaded_cache ==
    IF cache_file.kind = "json" THEN json_load(cache_file.text) ELSE EmptyCache

\* C11: symmetry.  Over trees that do not change, the set of paths that
\* compare_directories(root_a, root_b) has collected from its workers is the
\* set compare_directories(root_b, root_a) reports from the same starting
\* cache.
C11_Symmetry ==
    (pc = "collect" /\ done = common_files /\ ~touched)
        => Range(differences)
             = run_between(files, loaded_cache, root_b, root_a,
                           find_dat_files(files, root_b) \cap find_dat_files(files, root_a))

\* a second run, from the cache the first one wrote, has collected all its
\* results and reports a difference
C11_Witness ==
    /\ pc = "collect"
    /\ done = common_files
    /\ ~touched
    /\ runs = 2
    /\ cache_file.kind = "json"
    /\ cache_file.text # {}
    /\ differences # <<>>


\* C13: atomic persist.  The cache file is at every moment a complete
\* mapping (or does not exist yet), and a process killed during the persist
\* step never leaves it empty, truncated or partly written.
C13_AtomicPersist ==
    /\ cache_file.kind \in {"missing", "json"}
    /\ pc = "killed" => cache_file.kind # "truncated"

\* C17: cache frame under concurrency.  While the pool runs, a step changes
\* or adds a record only if it is a step of the worker whose file_a or
\* file_b is the record's key, and removes none; so at every moment the
\* cache is the loaded cache with the records written so far by the
\* workers overlaid.
C17_CacheFrame ==
    /\ [](pc \in {"collect", "shutdown"} =>
            \A k \in FileKeys :
                LET w == workers[k[2]]
                    mt == IF k[1] = root_a THEN w.mod_time_a ELSE w.mod_time_b
                    h == IF k[1] = root_a THEN w.hash_a ELSE w.hash_b
                    loaded_fresh == k \in DOMAIN loaded_cache
                                      /\ loaded_cache[k].mod_time >= mt
                    wrote == h # None /\ ~loaded_fresh
                IN  IF wrote
                    THEN /\ k \in DOMAIN hash_cache
                         /\ hash_cache[k] = [hash |-> h, mod_time |-> mt]
                    ELSE /\ k \in DOMAIN hash_cache <=> k \in DOMAIN loaded_cache
                         /\ k \in DOMAIN loaded_cache => hash_cache[k] = loaded_cache[k])
    /\ [][(pc \in {"collect", "shutdown"} /\ pc' \in {"collect", "shutdown", "dump", "raised"})
            => \A k \in FileKeys :
                  /\ k \in DOMAIN hash_cache => k \in DOMAIN hash_cache'
                  /\ (k \in DOMAIN hash_cache' /\
                        (k \notin DOMAIN hash_cache \/ hash_cache'[k] # hash_cache[k]))
                     => /\ workers'[k[2]] # workers[k[2]]
                        /\ \A q \in DOMAIN workers : q # k[2] => workers'[q] = workers[q]
         ]_vars

\* every worker of a run that loaded a cache has finished; one record of the
\* loaded cache was overwritten and another one is kept as loaded
C17_Witness ==
    /\ pc = "collect"
    /\ \A p \in common_files : workers[p].pc = "returned"
    /\ Cardinality(common_files) >= 2
    /\ \E k \in DOMAIN loaded_cache : hash_cache[k] # loaded_cache[k]
    /\ \E k \in DOMAIN loaded_cache : hash_cache[k] = loaded_cache[k]

\* C18: exact aggregation.  When compare_directories is past the pool
\* (writing the cache, or returned), every common path has one finished
\* call whose result was taken, the progress counter equals the number of
\* common paths, and the list holds, once each, exactly the common paths
\* whose call returned True.
C18_ExactAggregation ==
    pc \in {"dump", "returned"}
        => /\ done = common_files
           /\ \A p \in common_files : workers[p].pc = "returned"
           /\ \A p \in DOMAIN workers : p \notin common_files => workers[p].pc = "none"
           /\ pbar = Cardinality(common_files)
           /\ Len(differences) = Cardinality(Range(differences))
           /\ Range(differences) = {p \in common_files : workers[p].result}

\* a run returned with one common path reported and another one not
C18_Witness ==
    /\ pc = "returned"
    /\ Cardinality(common_files) >= 2
    /\ \E p \in common_files : workers[p].result /\ p \in Range(differences)
    /\ \E p \in common_files : ~workers[p].result /\ p \notin Range(differences)
    /\ \E p \in common_files : workers[p].mod_time_a = workers[p].mod_time_b


\* C14: mode A comparison set.  Only paths that end in .DAT are compared;
\* a path that is not common to both walks has no compare_files call, raises
\* nothing and is not in the report; and over trees that do not change
\* while the run is on, the paths compared are exactly the .DAT paths that
\* exist under both roots.
C14_ComparisonSet ==
    /\ \A p \in AllPaths :
          /\ p \in common_files => endswith_DAT(p)
          /\ p \notin common_files
                => (workers[p].pc = "none" /\ p \notin Range(differences) /\ p \notin done)
          /\ (p \in common_files /\ pc \in {"collect", "shutdown", "dump", "returned", "raised"})
                => workers[p].pc # "none"
    /\ (pc \in {"collect", "shutdown", "dump", "returned"} /\ ~touched)
          => common_files = {p \in AllPaths : /\ endswith_DAT(p)
                                              /\ files[join(root_a, p)].exists
                                              /\ files[join(root_b, p)].exists}

\* a run returned with a .DAT file present under one root only, and a file
\* without the suffix that differs between the roots; neither was compared
C14_Witness ==
    /\ pc = "returned"
    /\ ~touched
    /\ common_files # {}
    /\ \E p \in Paths : /\ files[join(root_a, p)].exists # files[join(root_b, p)].exists
                        /\ workers[p].pc = "none"
    /\ \E p \in OtherPaths : /\ files[join(root_a, p)].exists
                             /\ files[join(root_b, p)].exists
                             /\ files[join(root_a, p)].content # files[join(root_b, p)].content
                             /\ files[join(root_a, p)].mtime # files[join(root_b, p)].mtime
                             /\ workers[p].pc = "none"


\* every record that passes the freshness check against the modification
\* time the file has now holds the hash of the content the file has now: in
\* the cache of a run that is on, and in the cache file
FreshRecordsSound ==
    \A k \in FileKeys :
        /\ (/\ pc \in {"walk_a", "walk_b", "collect", "shutdown", "dump"}
            /\ k \in DOMAIN hash_cache
            /\ files[k].exists
            /\ hash_cache[k].mod_time >= files[k].mtime)
           => hash_cache[k].hash = compute_file_hash(files[k].content)
        /\ (/\ k \in DOMAIN loaded_cache
            /\ files[k].exists
            /\ loaded_cache[k].mod_time >= files[k].mtime)
           => loaded_cache[k].hash = compute_file_hash(files[k].content)

\* C19 as stated: from an empty cache, when every change of a file's content
\* strictly increases its modification time, every record that passes the
\* freshness check holds the hash of the file's current content.
C19_FreshImpliesCurrent == FreshRecordsSound

\* C19, amended: the same when, in addition, no modification time is ever
\* set back.
C19_FreshImpliesCurrentNoRewind == (rewound = {}) => FreshRecordsSound

\* a worker read the modification time of file_a, the file was then given
\* another content and a newer time, and the worker stored the hash of the
\* new content under the time it had read: the record does not pass the
\* freshness check
C19_Witness ==
    \E p \in Paths :
        LET file_a == join(root_a, p)
        IN  /\ rewound = {}
            /\ workers[p].pc \in {"hash_b", "returned"}
            /\ files[file_a].exists
            /\ files[file_a].content # 0
            /\ files[file_a].mtime > workers[p].mod_time_a
            /\ file_a \in DOMAIN hash_cache
            /\ hash_cache[file_a] = [hash |-> compute_file_hash(files[file_a].content),
                                     mod_time |-> workers[p].mod_time_a]


\* ------------------------------------------------ claims on mode B (SpecB)

\* the pairs executor.map was given
Submitted == {all_files_dir1[i] : i \in 1..Len(all_files_dir1)}
\* diff_directories has returned or an exception has left it
Ended == yml_pc \in {"done", "raised"}

\* C12: missing counterpart.  When the pool exists and a file of dir1 has no
\* counterpart under dir2, the error concerns that pair only: at the end of
\* the run no other pair has been cancelled, every other pair has been
\* compared and its .diff, if it has one, is written.
C12_MissingCounterpartIsolated ==
    (Ended /\ pool_workers >= 1 /\ \E p \in Submitted : dir2[p] = Missing)
        => \A q \in Submitted :
               dir2[q] # Missing
                   => /\ units[q] = "done"
                      /\ (dir1[q] # dir2[q] /\ decode_lines(dir1[q]) # decode_lines(dir2[q]))
                             => q \in written

\* C15: diff artifact creation.  A pair that compare_file_pair has compared
\* has its .diff written exactly when the hashes of the two contents differ
\* and the decoded lines differ; the file then holds the unified diff; no
\* file is written or created for any other pair.
C15_DiffArtifactIff ==
    \A p \in YmlFiles :
        /\ units[p] = "done"
              => (p \in written <=> /\ file_hash(dir1[p]) # file_hash(dir2[p])
                                    /\ decode_lines(dir1[p]) # decode_lines(dir2[p]))
        /\ units[p] # "done" => p \notin written
        /\ p \in written
              => /\ output_dir.exists
                 /\ p \in DOMAIN output_dir.entries
                 /\ output_dir.entries[p] = <<decode_lines(dir1[p]), decode_lines(dir2[p])>>
        /\ (p \notin written /\ p \in DOMAIN output_dir.entries)
              => /\ p \in DOMAIN prior.entries
                 /\ output_dir.entries[p] = prior.entries[p]

\* a run has compared two pairs with different bytes: the lines of one are
\* equal and no .diff exists for it, the .diff of the other is written
C15_Witness ==
    /\ yml_pc = "done"
    /\ \E p, q \in YmlFiles :
          /\ units[p] = "done" /\ units[q] = "done"
          /\ dir1[p] # dir2[p]
          /\ decode_lines(dir1[p]) = decode_lines(dir2[p])
          /\ p \notin written
          /\ p \notin DOMAIN output_dir.entries
          /\ q \in written
          /\ q \in DOMAIN output_dir.entries

\* the user has answered the prompt with yes
answered_yes(line) == lower(strip(line)) \in {<<"y">>, <<"y", "e", "s">>}

\* the first and the last part of C16: the directory is removed only after a
\* prompt answered with yes, and a missing directory gives no prompt
DeletionOnlyConfirmed ==
    /\ cleared => prompted /\ answered_yes(user_input)
    /\ ~prior.exists => ~prompted /\ ~cleared
    /\ (~cleared /\ prior.exists)
          => /\ output_dir.exists
             /\ \A n \in DOMAIN prior.entries :
                   /\ n \in DOMAIN output_dir.entries
                   /\ n \notin written => output_dir.entries[n] = prior.entries[n]

\* C16: confirmed deletion only.  The prior contents of the output directory
\* are deleted only after a prompt answered with yes; after another answer
\* they are left as they were and the run goes on to compare all pairs; a
\* missing directory gives no prompt and no deletion.
C16_ConfirmedDeletionOnly ==
    /\ DeletionOnlyConfirmed
    /\ (Ended /\ prompted /\ yml_error # "EOFError" /\ ~answered_yes(user_input))
          => /\ yml_pc = "done"
             /\ \A p \in YmlFiles : dir1[p] # Missing => units[p] = "done"

\* C20: non-empty worker pool.  For a CPU count of 1 or more the worker count
\* passed to ProcessPoolExecutor is at least 1 and the pool is created.
C20_NonEmptyPool ==
    (cpu_count >= 1 /\ pool_workers # NoPool)
        => pool_workers >= 1 /\ yml_error # "ValueError"

====
